---- MODULE Spec2Model ----
(***************************************************************************)
(* Model of the constrained object detection notebook                      *)
(* src/Tiny_ML_MobileNetV2(L6).ipynb: the functions build_model and train. *)
(* Framework calls (MobileNetV2, tf.data, ModelCheckpoint, fit) are        *)
(* modelled by what they do to the values train reads back.                *)
(***************************************************************************)
EXTENDS Integers, Sequences, FiniteSets, TLC

VARIABLES
    args,               \* the arguments of the call (train or build_model)
    pc,                 \* position of the call
    raised,             \* the exception that left the call, or NoError
    steps,              \* the steps executed so far, in order
    weights,            \* weights reference handed to build_model
    model,              \* the keras model, or NoModel
    output_width_height,
    train_pipeline,     \* train_segmentation_dataset, as its tf.data stages
    val_pipeline,       \* validation_segmentation_dataset
    callback_pipeline,  \* validation_dataset_for_callback
    train_batches,      \* batches of the last pass over train_segmentation_dataset
    epoch,              \* epochs completed by fit / VeLO
    ckpt_best,          \* ModelCheckpoint.best
    checkpoint,         \* the file at best_model_path
    f1_history,         \* val_f1 of each completed epoch
    ckpt_writes,        \* epochs at whose end the checkpoint was written
    training_error      \* what the training call itself raised, or NoError

vars == <<args, pc, raised, steps, weights, model, output_width_height,
          train_pipeline, val_pipeline, callback_pipeline, train_batches,
          epoch, ckpt_best, checkpoint, f1_history, ckpt_writes,
          training_error>>

-----------------------------------------------------------------------------
(* Bounds of the model *)

MaxDim == 34
MaxEpochs == 2
MaxF1 == 2
MaxBatch == 2
TrainLen == 2
ValLen == 2
MaxClasses == 1

(* Program and framework constants *)

\* keras MobileNetV2: obtain_input_shape(..., min_size=32, ...)
MinSize == 32
\* tf.data.experimental.AUTOTUNE
AUTOTUNE == -1
\* ModelCheckpoint(mode='max'): best starts at -Inf, below every F1
NegInf == -1
\* buffer_size=batch_size*4
ShuffleFactor == 4

None == "None"
NoError == "NoError"
NoModel == [kind |-> "NoModel"]
NoWeights == [kind |-> "unset", num_channels |-> 0, alpha |-> 0]
\* Nothing at best_model_path
NoFile == [kind |-> "NoFile", w |-> [tag |-> "none", n |-> 0], run |-> "none"]
\* A checkpoint left at best_model_path by an earlier run
StaleFile == [kind |-> "file", w |-> [tag |-> "stale", n |-> 0], run |-> "earlier"]

\* Side lengths: one below the framework's minimum and a range above it
Dims == (MinSize - 1)..MaxDim
\* For build_model on its own also the sides of the example shape (96,64,3)
BuildDims == Dims \cup {64, 96}
Channels == {1, 3, 4}
\* alpha in hundredths: 0.1, 0.35, 0.5
Alphas == {10, 35, 50}
F1Values == 0..MaxF1

train_dataset == [i \in 1..TrainLen |-> i]
validation_dataset == [i \in 1..ValLen |-> 100 + i]

-----------------------------------------------------------------------------
(* Pretrained weights *)

\* Mutant: a fifth pair, (3, 0.5), is whitelisted
allowed_combinations_wider ==
    { [num_channels |-> 1, alpha |-> 10],
      [num_channels |-> 1, alpha |-> 35],
      [num_channels |-> 3, alpha |-> 10],
      [num_channels |-> 3, alpha |-> 35],
      [num_channels |-> 3, alpha |-> 50] }

allowed_combinations ==
    { [num_channels |-> 1, alpha |-> 10],
      [num_channels |-> 1, alpha |-> 35],
      [num_channels |-> 3, alpha |-> 10],
      [num_channels |-> 3, alpha |-> 35] }

get_or_download_pretrained_weights(num_channels, a, allowed) ==
    IF [num_channels |-> num_channels, alpha |-> a] \in allowed
    THEN [kind |-> "file", num_channels |-> num_channels, alpha |-> a]
    ELSE [kind |-> None, num_channels |-> 0, alpha |-> 0]

IsNone(w) == w.kind = None

-----------------------------------------------------------------------------
(* build_model *)

\* Output size of a stride-s convolution with padding='same'
SameConvOut(n, s) == (n + s - 1) \div s

\* Output size of ZeroPadding2D(correct_pad(x, 3)) followed by a 3x3
\* stride-2 convolution with padding='valid'
PadValidConvOut(n) ==
    LET adjust == 1 - (n % 2)
        padded == n + (1 - adjust) + 1
    IN  ((padded - 3) \div 2) + 1

\* The spatially relevant layers of MobileNetV2 up to block_6_expand_relu
BackboneToCut ==
    << [name |-> "Conv1",                   pad |-> "same",  stride |-> 2],
       [name |-> "expanded_conv_depthwise", pad |-> "same",  stride |-> 1],
       [name |-> "block_1_depthwise",       pad |-> "valid", stride |-> 2],
       [name |-> "block_2_depthwise",       pad |-> "same",  stride |-> 1],
       [name |-> "block_3_depthwise",       pad |-> "valid", stride |-> 2],
       [name |-> "block_4_depthwise",       pad |-> "same",  stride |-> 1],
       [name |-> "block_5_depthwise",       pad |-> "same",  stride |-> 1],
       [name |-> "block_6_expand_relu",     pad |-> "same",  stride |-> 1] >>

LayerOut(layer, n) ==
    IF layer.pad = "valid" THEN PadValidConvOut(n)
    ELSE SameConvOut(n, layer.stride)

RECURSIVE CutPointSize(_, _)
CutPointSize(layers, n) ==
    IF layers = <<>> THEN n
    ELSE CutPointSize(Tail(layers), LayerOut(Head(layers), n))

\* MobileNetV2(input_shape=..., weights=<None or a file>, alpha=..., include_top=True)
MobileNetV2(input_shape, w, a) ==
    IF input_shape[1] < MinSize \/ input_shape[2] < MinSize
    THEN [kind |-> "error", error |-> "ValueError: Input size must be at least 32x32"]
    ELSE [kind |-> "backbone",
          cut_rows |-> CutPointSize(BackboneToCut, input_shape[1]),
          cut_cols |-> CutPointSize(BackboneToCut, input_shape[2]),
          init |-> IF IsNone(w) THEN "random" ELSE "pretrained"]

\* 1x1, stride-1 convolution of the head
HeadConvOut(n) == SameConvOut(n, 1)

InitialWeights == [tag |-> "init", n |-> 0]

\* Mutant: build_model itself rejects a non-square input shape
build_model_square_only(input_shape, w, a, num_classes) ==
    LET mobile_net_v2 == MobileNetV2(input_shape, w, a) IN
    IF input_shape[1] # input_shape[2]
    THEN [kind |-> "error", error |-> "Exception: Only square inputs are supported"]
    ELSE IF mobile_net_v2.kind = "error" THEN mobile_net_v2
    ELSE [kind |-> "model",
          input_shape |-> input_shape,
          out_rows |-> HeadConvOut(HeadConvOut(mobile_net_v2.cut_rows)),
          out_cols |-> HeadConvOut(HeadConvOut(mobile_net_v2.cut_cols)),
          out_classes |-> num_classes,
          init |-> mobile_net_v2.init,
          w |-> InitialWeights,
          compiled |-> FALSE,
          softmax |-> FALSE]

build_model(input_shape, w, a, num_classes) ==
    LET mobile_net_v2 == MobileNetV2(input_shape, w, a) IN
    IF mobile_net_v2.kind = "error" THEN mobile_net_v2
    ELSE [kind |-> "model",
          input_shape |-> input_shape,
          out_rows |-> HeadConvOut(HeadConvOut(mobile_net_v2.cut_rows)),
          out_cols |-> HeadConvOut(HeadConvOut(mobile_net_v2.cut_cols)),
          out_classes |-> num_classes,
          init |-> mobile_net_v2.init,
          w |-> InitialWeights,
          compiled |-> FALSE,
          softmax |-> FALSE]

-----------------------------------------------------------------------------
(* Dataset pipelines *)

\* dataset.bbox_to_segmentation(output_width_height, num_classes_with_background)
bbox_to_segmentation(owh, ncb, x) == [x |-> x, seg |-> <<owh, owh, ncb>>]

RECURSIVE ShuffleFrom(_, _, _)
\* tf.data shuffle: a buffer of at most b elements is filled from the
\* input and an element of the buffer is drawn at random
ShuffleFrom(buf, rest, b) ==
    IF buf = {} /\ rest = <<>> THEN { <<>> }
    ELSE IF Cardinality(buf) < b /\ rest # <<>>
         THEN ShuffleFrom(buf \cup {Head(rest)}, Tail(rest), b)
         ELSE UNION { { <<x>> \o s : s \in ShuffleFrom(buf \ {x}, rest, b) } : x \in buf }

RECURSIVE Batch(_, _)
\* ds.batch(batch_size, drop_remainder=False)
Batch(s, n) ==
    IF s = <<>> THEN <<>>
    ELSE IF Len(s) <= n THEN << s >>
    ELSE << SubSeq(s, 1, n) >> \o Batch(SubSeq(s, n + 1, Len(s)), n)

\* The possible results of one stage applied to one possible input
StageOutcomes(stage, s) ==
    CASE stage.op = "map"      -> { [i \in 1..Len(s) |-> bbox_to_segmentation(stage.arg, stage.n, s[i])] }
      [] stage.op = "shuffle"  -> ShuffleFrom({}, s, stage.arg)
      [] stage.op = "batch"    -> { Batch(s, stage.arg) }
      [] stage.op = "prefetch" -> { s }

RECURSIVE Iterate(_, _)
\* The possible results of one pass over a pipeline applied to the inputs ss
Iterate(pipeline, ss) ==
    IF pipeline = <<>> THEN ss
    ELSE Iterate(Tail(pipeline), UNION { StageOutcomes(Head(pipeline), s) : s \in ss })

prefetch_policy(ensure_determinism) == IF ensure_determinism THEN 1 ELSE AUTOTUNE

Stage(op, arg, n) == [op |-> op, arg |-> arg, n |-> n]

\* Mutant: the shuffle ignores ensure_determinism
as_segmentation_always_shuffle(a, owh, shuffle) ==
    << Stage("map", owh, a.num_classes + 1) >>
    \o (IF shuffle
        THEN << Stage("shuffle", a.batch_size * ShuffleFactor, 0) >>
        ELSE <<>>)
    \o << Stage("batch", a.batch_size, 0),
          Stage("prefetch", prefetch_policy(a.ensure_determinism), 0) >>

as_segmentation(a, owh, shuffle) ==
    << Stage("map", owh, a.num_classes + 1) >>
    \o (IF ~a.ensure_determinism /\ shuffle
        THEN << Stage("shuffle", a.batch_size * ShuffleFactor, 0) >>
        ELSE <<>>)
    \o << Stage("batch", a.batch_size, 0),
          Stage("prefetch", prefetch_policy(a.ensure_determinism), 0) >>

for_callback(a) ==
    << Stage("batch", a.batch_size, 0),
       Stage("prefetch", prefetch_policy(a.ensure_determinism), 0) >>

-----------------------------------------------------------------------------
(* train *)

Args ==
    [ num_classes : 1..MaxClasses,
      num_epochs : 0..MaxEpochs,
      alpha : Alphas,
      input_shape : Dims \X Dims \X Channels,
      batch_size : 1..MaxBatch,
      use_velo : BOOLEAN,
      ensure_determinism : BOOLEAN ]

Init ==
    /\ args \in Args
    /\ checkpoint \in {NoFile, StaleFile}
    /\ pc = "start"
    /\ raised = NoError
    /\ steps = <<>>
    /\ weights = NoWeights
    /\ model = NoModel
    /\ output_width_height = 0
    /\ train_pipeline = <<>>
    /\ val_pipeline = <<>>
    /\ callback_pipeline = <<>>
    /\ train_batches = <<>>
    /\ epoch = 0
    /\ ckpt_best = NegInf
    /\ f1_history = <<>>
    /\ ckpt_writes = <<>>
    /\ training_error = NoError

Raise(e) == pc' = "raised" /\ raised' = e

\* Mutant: the input squareness check is missing
CheckInputSkipped ==
    /\ pc = "start"
    /\ pc' = "resolve"
    /\ UNCHANGED <<args, raised, steps, weights, model, output_width_height,
                   train_pipeline, val_pipeline, callback_pipeline,
                   train_batches, epoch, ckpt_best, checkpoint, f1_history,
                   ckpt_writes, training_error>>

\* width, height, input_num_channels = input_shape; if width != height: raise
CheckInput ==
    /\ pc = "start"
    /\ IF args.input_shape[1] # args.input_shape[2]
       THEN Raise("Exception: Only square inputs are supported")
       ELSE pc' = "resolve" /\ UNCHANGED raised
    /\ UNCHANGED <<args, steps, weights, model, output_width_height,
                   train_pipeline, val_pipeline, callback_pipeline,
                   train_batches, epoch, ckpt_best, checkpoint, f1_history,
                   ckpt_writes, training_error>>

ResolveWeights ==
    /\ pc = "resolve"
    /\ weights' = get_or_download_pretrained_weights(
                      args.input_shape[3], args.alpha, allowed_combinations)
    /\ steps' = Append(steps, "weights_resolved")
    /\ pc' = "build"
    /\ UNCHANGED <<args, raised, model, output_width_height,
                   train_pipeline, val_pipeline, callback_pipeline,
                   train_batches, epoch, ckpt_best, checkpoint, f1_history,
                   ckpt_writes, training_error>>

BuildModel ==
    /\ pc = "build"
    /\ LET m == build_model(args.input_shape, weights, args.alpha,
                            args.num_classes + 1)
       IN  IF m.kind = "error"
           THEN Raise(m.error) /\ UNCHANGED <<model, steps>>
           ELSE /\ model' = m
                /\ steps' = Append(steps, "model_built")
                /\ pc' = "derive"
                /\ UNCHANGED raised
    /\ UNCHANGED <<args, weights, output_width_height,
                   train_pipeline, val_pipeline, callback_pipeline,
                   train_batches, epoch, ckpt_best, checkpoint, f1_history,
                   ckpt_writes, training_error>>

\* Derive the output size, build the loss and the three dataset pipelines
DeriveOutput ==
    /\ pc = "derive"
    /\ IF model.out_rows # model.out_cols
       THEN /\ Raise("Exception: Only square outputs are supported")
            /\ UNCHANGED <<output_width_height, train_pipeline, val_pipeline,
                           callback_pipeline>>
       ELSE /\ output_width_height' = model.out_rows
            /\ train_pipeline' = as_segmentation(args, model.out_rows, TRUE)
            /\ val_pipeline' = as_segmentation(args, model.out_rows, FALSE)
            /\ callback_pipeline' = for_callback(args)
            /\ pc' = "bias"
            /\ UNCHANGED raised
    /\ UNCHANGED <<args, steps, weights, model, train_batches, epoch,
                   ckpt_best, checkpoint, f1_history, ckpt_writes, training_error>>

\* util.set_classifier_biases_from_dataset(model, train_segmentation_dataset)
InitBias ==
    /\ pc = "bias"
    /\ \E b \in Iterate(train_pipeline, {train_dataset}) : train_batches' = b
    /\ model' = [model EXCEPT !.w = [tag |-> "bias_init", n |-> 0]]
    /\ steps' = Append(steps, "bias_initialized")
    /\ pc' = "compile"
    /\ UNCHANGED <<args, raised, weights, output_width_height,
                   train_pipeline, val_pipeline, callback_pipeline,
                   epoch, ckpt_best, checkpoint, f1_history, ckpt_writes, training_error>>

\* Mutant: the model is compiled whatever use_velo says
CompileAlways ==
    /\ pc = "compile"
    /\ model' = [model EXCEPT !.compiled = TRUE]
    /\ steps' = Append(steps, "compiled")
    /\ ckpt_best' = NegInf
    /\ pc' = "train"
    /\ UNCHANGED <<args, raised, weights, output_width_height,
                   train_pipeline, val_pipeline, callback_pipeline,
                   train_batches, epoch, checkpoint, f1_history, ckpt_writes,
                   training_error>>

\* if not use_velo: model.compile(...); then the callbacks are constructed
Compile ==
    /\ pc = "compile"
    /\ IF ~args.use_velo
       THEN /\ model' = [model EXCEPT !.compiled = TRUE]
            /\ steps' = Append(steps, "compiled")
       ELSE UNCHANGED <<model, steps>>
    /\ ckpt_best' = NegInf
    /\ pc' = "train"
    /\ UNCHANGED <<args, raised, weights, output_width_height,
                   train_pipeline, val_pipeline, callback_pipeline,
                   train_batches, epoch, checkpoint, f1_history, ckpt_writes, training_error>>

\* The call of train_keras_model_with_velo or of model.fit is entered
BeginTraining ==
    /\ pc = "train"
    /\ steps' = Append(steps, IF args.use_velo THEN "velo" ELSE "fit")
    /\ epoch' = 0
    /\ pc' = "epoch_loop"
    /\ UNCHANGED <<args, raised, weights, model, output_width_height,
                   train_pipeline, val_pipeline, callback_pipeline,
                   train_batches, ckpt_best, checkpoint, f1_history,
                   ckpt_writes, training_error>>

\* Mutant: the checkpoint is also written on an equal val_f1
monitor_op_ge(current, best) == current >= best

\* ModelCheckpoint(monitor='val_f1', save_best_only=True, mode='max')
monitor_op(current, best) == current > best

\* One epoch: a pass over the training data, CentroidScoring puts val_f1
\* in the logs, ModelCheckpoint.on_epoch_end saves on improvement
Epoch ==
    /\ pc = "epoch_loop"
    /\ epoch < args.num_epochs
    /\ \E b \in Iterate(train_pipeline, {train_dataset}), val_f1 \in F1Values :
          LET trained == [tag |-> "epoch", n |-> epoch + 1] IN
          /\ train_batches' = b
          /\ model' = [model EXCEPT !.w = trained]
          /\ f1_history' = Append(f1_history, val_f1)
          /\ IF monitor_op(val_f1, ckpt_best)
             THEN /\ ckpt_best' = val_f1
                  /\ checkpoint' = [kind |-> "file", w |-> trained, run |-> "this"]
                  /\ ckpt_writes' = Append(ckpt_writes, epoch + 1)
             ELSE UNCHANGED <<ckpt_best, checkpoint, ckpt_writes>>
    /\ epoch' = epoch + 1
    /\ UNCHANGED <<args, pc, raised, steps, weights, output_width_height,
                   train_pipeline, val_pipeline, callback_pipeline,
                   training_error>>

FrameworkErrors == {"ResourceExhaustedError", "InternalError"}

\* Mutant: the handler swallows the resource exhaustion and train goes on
\* to the restore
TrainingRaisesSwallowed ==
    /\ pc = "epoch_loop"
    /\ \E e \in FrameworkErrors :
          /\ training_error' = e
          /\ IF args.use_velo /\ e = "ResourceExhaustedError"
             THEN pc' = "restore" /\ UNCHANGED raised
             ELSE Raise(e)
    /\ UNCHANGED <<args, steps, weights, model, output_width_height,
                   train_pipeline, val_pipeline, callback_pipeline,
                   train_batches, epoch, ckpt_best, checkpoint, f1_history,
                   ckpt_writes>>

\* The training call raises e: the VeLO call sits in
\* try/except ResourceExhaustedError, model.fit in none
TrainingRaises ==
    /\ pc = "epoch_loop"
    /\ \E e \in FrameworkErrors :
          /\ training_error' = e
          /\ IF args.use_velo /\ e = "ResourceExhaustedError"
             THEN Raise("Exception: ResourceExhaustedError caught during train_keras_model_with_velo")
             ELSE Raise(e)
    /\ UNCHANGED <<args, steps, weights, model, output_width_height,
                   train_pipeline, val_pipeline, callback_pipeline,
                   train_batches, epoch, ckpt_best, checkpoint, f1_history,
                   ckpt_writes>>

\* The training call returns after num_epochs epochs
TrainingDone ==
    /\ pc = "epoch_loop"
    /\ epoch = args.num_epochs
    /\ pc' = "restore"
    /\ UNCHANGED <<args, raised, steps, weights, model, output_width_height,
                   train_pipeline, val_pipeline, callback_pipeline,
                   train_batches, epoch, ckpt_best, checkpoint, f1_history,
                   ckpt_writes, training_error>>

\* model.load_weights(best_model_path)
RestoreBest ==
    /\ pc = "restore"
    /\ IF checkpoint.kind = "NoFile"
       THEN Raise("NotFoundError") /\ UNCHANGED <<model, steps>>
       ELSE /\ model' = [model EXCEPT !.w = checkpoint.w]
            /\ steps' = Append(steps, "best_weights_restored")
            /\ pc' = "softmax"
            /\ UNCHANGED raised
    /\ UNCHANGED <<args, weights, output_width_height,
                   train_pipeline, val_pipeline, callback_pipeline,
                   train_batches, epoch, ckpt_best, checkpoint, f1_history,
                   ckpt_writes, training_error>>

\* Softmax()(model.layers[-1].output); Model(model.input, softmax_layer); return
AttachSoftmax ==
    /\ pc = "softmax"
    /\ model' = [model EXCEPT !.softmax = TRUE]
    /\ steps' = Append(steps, "softmax_attached")
    /\ pc' = "returned"
    /\ UNCHANGED <<args, raised, weights, output_width_height,
                   train_pipeline, val_pipeline, callback_pipeline,
                   train_batches, epoch, ckpt_best, checkpoint, f1_history,
                   ckpt_writes, training_error>>

Next ==
    \/ CheckInput
    \/ ResolveWeights
    \/ BuildModel
    \/ DeriveOutput
    \/ InitBias
    \/ Compile
    \/ BeginTraining
    \/ Epoch
    \/ TrainingRaises
    \/ TrainingDone
    \/ RestoreBest
    \/ AttachSoftmax

Spec == Init /\ [][Next]_vars

-----------------------------------------------------------------------------
(* build_model called on its own *)

BuildArgs ==
    [ num_classes : 1..(MaxClasses + 1),
      num_epochs : {0},
      alpha : Alphas,
      input_shape : BuildDims \X BuildDims \X Channels,
      batch_size : {1},
      use_velo : {FALSE},
      ensure_determinism : {FALSE} ]

InitBuild ==
    /\ args \in BuildArgs
    /\ weights \in { get_or_download_pretrained_weights(
                         args.input_shape[3], args.alpha, allowed_combinations),
                     get_or_download_pretrained_weights(
                         args.input_shape[3], args.alpha, {}) }
    /\ checkpoint = NoFile
    /\ pc = "call_build_model"
    /\ raised = NoError
    /\ steps = <<>>
    /\ model = NoModel
    /\ output_width_height = 0
    /\ train_pipeline = <<>>
    /\ val_pipeline = <<>>
    /\ callback_pipeline = <<>>
    /\ train_batches = <<>>
    /\ epoch = 0
    /\ ckpt_best = NegInf
    /\ f1_history = <<>>
    /\ ckpt_writes = <<>>
    /\ training_error = NoError

CallBuildModel ==
    /\ pc = "call_build_model"
    /\ LET m == build_model(args.input_shape, weights, args.alpha, args.num_classes)
       IN  IF m.kind = "error"
           THEN Raise(m.error) /\ UNCHANGED model
           ELSE model' = m /\ pc' = "build_model_returned" /\ UNCHANGED raised
    /\ UNCHANGED <<args, steps, weights, output_width_height,
                   train_pipeline, val_pipeline, callback_pipeline,
                   train_batches, epoch, ckpt_best, checkpoint, f1_history,
                   ckpt_writes, training_error>>

NextBuild == CallBuildModel

SpecBuild == InitBuild /\ [][NextBuild]_vars

-----------------------------------------------------------------------------
(* Properties *)

Range(s) == { s[i] : i \in 1..Len(s) }
Count(s, x) == Cardinality({ i \in 1..Len(s) : s[i] = x })
IsBestEpoch(e) ==
    /\ e \in 1..Len(f1_history)
    /\ \A j \in 1..Len(f1_history) : f1_history[j] <= f1_history[e]
NonSquareInput == args.input_shape[1] # args.input_shape[2]
NonSquareOutput == model.kind = "model" /\ model.out_rows # model.out_cols
CeilDiv8(n) == (n + 7) \div 8
TrainingSteps == {"bias_initialized", "compiled", "fit", "velo",
                  "best_weights_restored", "softmax_attached"}
VeloTranslated ==
    "Exception: ResourceExhaustedError caught during train_keras_model_with_velo"
HasShuffle(p) == \E i \in 1..Len(p) : p[i].op = "shuffle"
PrefetchDepths(p) == { p[i].arg : i \in { j \in 1..Len(p) : p[j].op = "prefetch" } }
Unshuffled(ds, a, owh) ==
    Batch([i \in 1..Len(ds) |-> bbox_to_segmentation(owh, a.num_classes + 1, ds[i])],
          a.batch_size)

\* C1: every call of train that returns a model returns the weights the
\* model held at the end of an epoch of this call whose val_f1 is the
\* maximum over the call's epochs; the softmax layer leaves them alone.
C1_ReturnedWeightsAreBestEpoch ==
    pc = "returned" =>
        /\ model.softmax
        /\ \E e \in 1..Len(f1_history) :
              IsBestEpoch(e) /\ model.w = [tag |-> "epoch", n |-> e]

\* C2: a non-square input shape, or a non-square output shape of the built
\* model, ends train with a configuration error before any training step:
\* no bias initialisation, no compile, no fit or VeLO call, no checkpoint
\* write, no model returned.
C2_NonSquareAbortsBeforeTraining ==
    /\ NonSquareInput =>
          /\ pc \in {"start", "raised"}
          /\ pc = "raised" => raised = "Exception: Only square inputs are supported"
          /\ steps = <<>>
          /\ model = NoModel
    /\ NonSquareOutput =>
          /\ pc \in {"derive", "raised"}
          /\ pc = "raised" => raised = "Exception: Only square outputs are supported"
    /\ (NonSquareInput \/ NonSquareOutput) =>
          /\ Range(steps) \cap TrainingSteps = {}
          /\ train_batches = <<>>
          /\ ckpt_writes = <<>>
          /\ checkpoint \in {NoFile, StaleFile}
          /\ f1_history = <<>>

C2_Witness ==
    /\ NonSquareInput
    /\ pc = "raised"
    /\ raised = "Exception: Only square inputs are supported"

\* C3 as stated: build_model, called on its own with a non-square input
\* shape, raises instead of returning a model.
C3_BuildModelRejectsNonSquare ==
    (pc # "call_build_model" /\ NonSquareInput) => pc = "raised"

\* C3 as amended: build_model makes no squareness check of its own. Called
\* with a non-square input shape whose sides are both at least 32, such as
\* (96,64,3), it returns a model whose output is ceil(side/8) on each axis;
\* it raises only the framework's minimum-size error, when a side is
\* below 32.
C3_BuildModelAcceptsNonSquare ==
    (pc # "call_build_model" /\ NonSquareInput) =>
        IF args.input_shape[1] >= MinSize /\ args.input_shape[2] >= MinSize
        THEN /\ pc = "build_model_returned"
             /\ raised = NoError
             /\ model.kind = "model"
             /\ model.out_rows = CeilDiv8(args.input_shape[1])
             /\ model.out_cols = CeilDiv8(args.input_shape[2])
        ELSE /\ pc = "raised"
             /\ raised = "ValueError: Input size must be at least 32x32"

C3_Witness ==
    /\ pc = "build_model_returned"
    /\ args.input_shape = <<96, 64, 3>>
    /\ model.out_rows = 12
    /\ model.out_cols = 8

\* C4: for every square input shape (H,H,C) that build_model accepts, the
\* output width and height are both H \div 8, also when 8 does not divide H.
C4_OutputIsFloorDiv8 ==
    (pc = "build_model_returned" /\ ~NonSquareInput) =>
        /\ model.out_rows = args.input_shape[1] \div 8
        /\ model.out_cols = args.input_shape[1] \div 8

\* C5: the weight reference is not None exactly for the pairs (1,0.1),
\* (1,0.35), (3,0.1), (3,0.35) of channel count and alpha; for any other
\* pair it is None, and train builds the model with random initialisation
\* and raises no error for it.
C5_WeightsOnlyForWhitelistedPairs ==
    weights # NoWeights =>
        /\ ~IsNone(weights) <=>
              <<args.input_shape[3], args.alpha>> \in
                  { <<1, 10>>, <<1, 35>>, <<3, 10>>, <<3, 35>> }
        /\ IsNone(weights) =>
              /\ model.kind = "model" => model.init = "random"
              /\ (pc = "raised" /\ args.input_shape[1] >= MinSize) =>
                    /\ model.kind = "model"
                    /\ raised \in FrameworkErrors \cup {VeloTranslated, "NotFoundError"}
              /\ (pc \notin {"build", "raised"}) => model.kind = "model"

C5_Witness ==
    /\ args.input_shape[3] = 3
    /\ args.alpha = 50
    /\ IsNone(weights)
    /\ pc = "returned"
    /\ model.init = "random"
    /\ Len(f1_history) > 0

\* C6: with use_velo, resource exhaustion in the VeLO training call is
\* fatal: the call is made once, the best-weights restore and the softmax
\* attachment never run, no model is returned; any other failure of the
\* training call propagates unchanged.
C6_VeloResourceExhaustionIsFatal ==
    training_error # NoError =>
        /\ pc = "raised"
        /\ Count(steps, "velo") + Count(steps, "fit") = 1
        /\ "best_weights_restored" \notin Range(steps)
        /\ "softmax_attached" \notin Range(steps)
        /\ ~model.softmax
        /\ model.w.tag \in {"bias_init", "epoch"}
        /\ IF args.use_velo /\ training_error = "ResourceExhaustedError"
           THEN raised = VeloTranslated /\ Count(steps, "velo") = 1
           ELSE raised = training_error

C6_Witness ==
    /\ args.use_velo
    /\ training_error = "ResourceExhaustedError"
    /\ pc = "raised"
    /\ raised = VeloTranslated
    /\ epoch > 0

\* C7: with ensure_determinism no pipeline has a shuffle stage, every
\* prefetch depth is 1, and the batches of a pass over either segmentation
\* dataset are a function of the data; a shuffle (buffer 4*batch_size,
\* training dataset only) and autotuned prefetch appear only without
\* ensure_determinism.
C7_DeterministicPipelines ==
    train_pipeline # <<>> =>
        LET all == train_pipeline \o val_pipeline \o callback_pipeline IN
        /\ ~HasShuffle(val_pipeline) /\ ~HasShuffle(callback_pipeline)
        /\ args.ensure_determinism =>
              /\ ~HasShuffle(train_pipeline)
              /\ PrefetchDepths(all) = {1}
              /\ Iterate(train_pipeline, {train_dataset}) =
                    { Unshuffled(train_dataset, args, output_width_height) }
              /\ Iterate(val_pipeline, {validation_dataset}) =
                    { Unshuffled(validation_dataset, args, output_width_height) }
              /\ train_batches # <<>> =>
                    train_batches = Unshuffled(train_dataset, args, output_width_height)
        /\ ~args.ensure_determinism =>
              /\ Count(train_pipeline, Stage("shuffle", 4 * args.batch_size, 0)) = 1
              /\ Cardinality({ i \in 1..Len(train_pipeline) :
                                  train_pipeline[i].op = "shuffle" }) = 1
              /\ PrefetchDepths(all) = {AUTOTUNE}

C7_Witness ==
    /\ args.ensure_determinism
    /\ pc = "returned"
    /\ epoch = 2
    /\ train_batches = Unshuffled(train_dataset, args, output_width_height)
    /\ Len(train_batches) > 1

\* C8: the checkpoint is written at the end of an epoch only when that
\* epoch's val_f1 is strictly greater than the val_f1 of every earlier epoch
\* of the run; an equal or lower val_f1 leaves it as it was, so the val_f1
\* of the stored checkpoint strictly increases from write to write.
C8_CheckpointOnlyOnStrictImprovement ==
    /\ \A i \in 1..Len(ckpt_writes) :
          /\ ckpt_writes[i] \in 1..Len(f1_history)
          /\ \A j \in 1..(ckpt_writes[i] - 1) :
                f1_history[j] < f1_history[ckpt_writes[i]]
    /\ \A i \in 1..(Len(ckpt_writes) - 1) :
          /\ ckpt_writes[i] < ckpt_writes[i + 1]
          /\ f1_history[ckpt_writes[i]] < f1_history[ckpt_writes[i + 1]]
    /\ IF ckpt_writes = <<>>
       THEN checkpoint \in {NoFile, StaleFile}
       ELSE checkpoint = [kind |-> "file",
                          w |-> [tag |-> "epoch", n |-> ckpt_writes[Len(ckpt_writes)]],
                          run |-> "this"]

C8_Witness ==
    /\ Len(f1_history) = 2
    /\ f1_history[1] = f1_history[2]
    /\ ckpt_writes = <<1>>
    /\ checkpoint.w = [tag |-> "epoch", n |-> 1]

\* C9: a call of train that returns a model ran weights-resolved,
\* model-built, bias-initialized, compile and fit (exactly when use_velo is
\* false) or the VeLO call (exactly when it is true), best-weights-restored,
\* softmax-attached, in that order, each once.
C9_StepsInOrder ==
    pc = "returned" =>
        /\ steps = <<"weights_resolved", "model_built", "bias_initialized">>
                   \o (IF args.use_velo THEN <<"velo">> ELSE <<"compiled", "fit">>)
                   \o <<"best_weights_restored", "softmax_attached">>
        /\ model.compiled = ~args.use_velo
        /\ epoch = args.num_epochs

C9_Witness ==
    /\ pc = "returned"
    /\ args.use_velo
    /\ ~model.compiled
    /\ Count(steps, "velo") = 1

\* C10: whenever train reaches the best-weights restore, the checkpoint at
\* best_model_path was written by the checkpoint callback during this call,
\* for every num_epochs >= 0: the restore never loads a file of an earlier
\* run and never finds the file missing.
C10_RestoreFindsThisRunsCheckpoint ==
    pc = "restore" =>
        /\ checkpoint.kind = "file"
        /\ checkpoint.run = "this"
        /\ ckpt_writes # <<>>

====
